---------------------------- MODULE Spec2Model ----------------------------
(***************************************************************************)
(* Model of TurkishSentimentAnalyzer (turkish_sentiment.py): one shared    *)
(* analyzer instance and the analyze() pipeline run by its callers.        *)
(*                                                                         *)
(* Conventions.                                                            *)
(*  - Words are written in ASCII transliteration (kotu for the negative    *)
(*    word of line 32, degil for the negation of line 49, Notr for the     *)
(*    neutral label); an emoji is written as its code point ("U+1F60A").   *)
(*  - A text is a sequence of atoms: a word, "!", "?", an emoji or the     *)
(*    whitespace atom " ".  Adjacent atoms with no whitespace between them *)
(*    form one token, as in the str they stand for.                        *)
(*  - Spec and SpecConc carry the scores as exact rationals: pos_score and  *)
(*    neg_score are integers counting 1/Unit, a literal such as 0.7 is the *)
(*    integer 700 of thousandths, and a quotient is the pair <<numerator,  *)
(*    denominator>>.                                                       *)
(*  - Spec64 carries them as the interpreter does, as binary64 floats: a   *)
(*    float is sgn * m * 2^e with a 53-bit m, and every operation is       *)
(*    rounded to the nearest float, ties to even.                          *)
(*  - The character-level features text_length, avg_word_length and        *)
(*    uppercase_ratio (lines 56, 58, 63) are not carried: nothing reads    *)
(*    them.                                                                *)
(***************************************************************************)
EXTENDS Integers, Sequences, FiniteSets, TLC

VARIABLES positive_words, negative_words, intensifiers, negations, nlp, frame

vars == <<positive_words, negative_words, intensifiers, negations, nlp, frame>>

self == <<positive_words, negative_words, intensifiers, negations, nlp>>

\* ------------------------------------------------------------------ bounds
MaxTokens == 3

MaxPad == 1

NThreads == 2

\* ------------------------------------------------------- lexicon (__init__)
PositiveWords ==
  {"aferin", "basari", "basarili", "begendim", "bravo", "cennet", "efsane",
   "eglenceli", "enfes", "fevkalade", "gorkemli", "gurur", "guzel", "harika",
   "hayal", "hayran", "hos", "huzur", "iyi", "kaliteli", "keyifli",
   "kusursuz", "masal", "minnettar", "mucize", "muhtesem", "mukemmel",
   "mutlu", "nefis", "olaganustu", "ovgu", "parlak", "ruya", "sagolun",
   "sahane", "sevdim", "sevinc", "super", "takdir", "tebrikler", "tesekkur",
   "zevk"}

NegativeWords ==
  {"aci", "aldatma", "anlamsiz", "basarisiz", "begenmedim", "berbat",
   "boktan", "bos", "bozuk", "can", "cop", "dehset", "eksik", "felaket",
   "fena", "hata", "hayal", "hile", "igrenc", "ihanet", "izdirap", "kirik",
   "kirikligi", "korkunc", "kotu", "nefret", "ofke", "pisman", "problem",
   "rezalet", "sacma", "sevmedim", "sikici", "sinir", "sorunlu", "tiksinc",
   "tiksinti", "trajedi", "uzucu", "uzuntu", "vasat", "yalan", "yetersiz",
   "zayif"}

\* multipliers in thousandths: 1500 is 1.5
Intensifiers ==
  "cok" :> 1500 @@ "fazla" :> 1300 @@ "asiri" :> 1800 @@ "son" :> 1400 @@
  "derece" :> 1400 @@ "gercekten" :> 1300 @@ "kesinlikle" :> 1500 @@
  "tamamen" :> 1400 @@ "oldukca" :> 1300 @@ "gayet" :> 1200 @@
  "epey" :> 1300 @@ "bayagi" :> 1300 @@ "bir" :> 1200 @@ "hayli" :> 1300

Negations == {"degil", "yok", "hic", "asla", "hayir"}

\* the three values the nlp argument of __init__ is modelled with
NlpValues == {"None", "annotator", "failing_annotator"}

positive_emojis ==
  {"U+1F60A", "U+1F600", "U+1F601", "U+1F642", "U+1F60D", "U+1F970",
   "U+2764+U+FE0F", "U+1F44D", "U+2728", "U+1F389"}

negative_emojis ==
  {"U+1F622", "U+1F62D", "U+1F61E", "U+1F614", "U+1F621", "U+1F620",
   "U+1F494", "U+1F44E", "U+1F630", "U+1F628"}

\* ------------------------------------------------------------- str methods
IsSpace(a) == a = " "

\* str.lower(), atom by atom
LowerAtom(a) ==
  CASE a = "Harika" -> "harika"
    [] a = "Kotu" -> "kotu"
    [] OTHER -> a

Lower(text) == [k \in 1..Len(text) |-> LowerAtom(text[k])]

\* str.strip(): drop leading and trailing whitespace
RECURSIVE LStrip(_)
LStrip(text) ==
  IF text = <<>> THEN <<>>
  ELSE IF IsSpace(Head(text)) THEN LStrip(Tail(text)) ELSE text

RECURSIVE RStrip(_)
RStrip(text) ==
  IF text = <<>> THEN <<>>
  ELSE IF IsSpace(text[Len(text)]) THEN RStrip(SubSeq(text, 1, Len(text) - 1))
       ELSE text

Strip(text) == RStrip(LStrip(text))

\* str.split(): the maximal runs of non-whitespace atoms, each joined into
\* one str
RECURSIVE SplitFrom(_, _, _)
SplitFrom(text, k, cur) ==
  IF k > Len(text) THEN (IF cur = "" THEN <<>> ELSE <<cur>>)
  ELSE IF IsSpace(text[k])
       THEN (IF cur = "" THEN <<>> ELSE <<cur>>) \o SplitFrom(text, k + 1, "")
       ELSE SplitFrom(text, k + 1, cur \o text[k])

Split(text) == SplitFrom(text, 1, "")

\* str.count(sub) for a one-atom sub
Count(text, sub) == Cardinality({k \in 1..Len(text) : text[k] = sub})

CountAny(text, subs) == Cardinality({k \in 1..Len(text) : text[k] \in subs})

\* ---------------------------------------------------------- float literals
Unit == 2000

\* the float written as milli thousandths, in units of 1/Unit
Fixed(milli) == (milli * Unit) \div 1000

\* x * c for a score x and a float c written in thousandths
Times(x, milli) == (x * milli) \div 1000

Abs(n) == IF n < 0 THEN -n ELSE n

\* q > c and q < c for a quotient q = <<num, den>>, den > 0, c in thousandths
Greater(q, milli) == q[1] * 1000 > milli * q[2]

Less(q, milli) == q[1] * 1000 < milli * q[2]

\* round(q, 3) in thousandths, ties to even
Round3(q) ==
  LET n == q[1] * 1000
      d == q[2]
      fl == IF n >= 0 THEN n \div d ELSE -((-n + d - 1) \div d)
      r2 == 2 * (n - fl * d)
  IN  IF r2 > d THEN fl + 1
      ELSE IF r2 < d THEN fl
      ELSE IF fl % 2 = 0 THEN fl ELSE fl + 1


\* ---------------------------------------------------------- the call frame
\* the locals of one analyze() call, and where it stands (pc)
NoFeatures == [word_count |-> 0]

NoResult == [label |-> "none"]

IdleFrame ==
  [pc |-> "idle", text |-> <<>>, features |-> NoFeatures, words |-> <<>>,
   pos_score |-> 0, neg_score |-> 0, i |-> 0, negation_active |-> FALSE,
   score |-> <<0, 1>>, label |-> "none", confidence |-> <<0, 1>>,
   result |-> NoResult]

\* IsBlank as `not text` alone, the strip() test forgotten
IsBlankNoStrip(text) == text = <<>>

\* `not text or not text.strip()`
IsBlank(text) == text = <<>> \/ Strip(text) = <<>>

\* analyze() is entered with its argument
Entry(text) == [IdleFrame EXCEPT !.pc = "analyze", !.text = text]

\* the record returned for empty input
EmptyResult ==
  [score |-> 0, label |-> "Notr", confidence |-> 0, polarity |-> 0,
   subjectivity |-> 500]

EmptyReturn(f) == [f EXCEPT !.pc = "done", !.result = EmptyResult]

\* ------------------------------------------------------- extract_features
CountIn(ws, table) == Cardinality({k \in 1..Len(ws) : ws[k] \in table})

LexiconFeatures(text) ==
  LET words == Split(Lower(text))
  IN  [word_count |-> Len(Split(text)),
       exclamation_count |-> Count(text, "!"),
       question_count |-> Count(text, "?"),
       positive_emoji_count |-> CountAny(text, positive_emojis),
       negative_emoji_count |-> CountAny(text, negative_emojis),
       positive_word_count |-> CountIn(words, positive_words),
       negative_word_count |-> CountIn(words, negative_words),
       intensifier_count |-> CountIn(words, DOMAIN intensifiers),
       negation_count |-> CountIn(words, negations)]

ExtractFeaturesStep(f) ==
  [f EXCEPT !.features = LexiconFeatures(f.text), !.pc = "annotate"]

\* what the annotator may answer: a tag for the tokens and the entities
Docs == {[pos_ |-> "NOUN", ents |-> 0], [pos_ |-> "ADJ", ents |-> 1]}

TagCount(f, doc, tag) == IF doc.pos_ = tag THEN f.features.word_count ELSE 0

SpacyFeatures(f, doc) ==
  [noun_count |-> TagCount(f, doc, "NOUN"),
   verb_count |-> TagCount(f, doc, "VERB"),
   adj_count |-> TagCount(f, doc, "ADJ"),
   adv_count |-> TagCount(f, doc, "ADV"),
   entity_count |-> doc.ents]

\* `if self.nlp: doc = self.nlp(text) ...` for an analyzer built with nlp = n;
\* a raising annotator leaves extract_features, calculate_sentiment_score
\* and analyze by the exception
AnnotateWith(n, f, doc) ==
  IF n = "None" THEN [f EXCEPT !.pc = "base"]
  ELSE IF n = "failing_annotator"
       THEN [f EXCEPT !.pc = "raised", !.result = [label |-> "exception"]]
       ELSE [f EXCEPT !.pc = "base",
                      !.features = f.features @@ SpacyFeatures(f, doc)]

AnnotateStep(f, doc) == AnnotateWith(nlp, f, doc)

\* ----------------------------------------------- calculate_sentiment_score
\* lines 105-110; with no word the two loops over words have no iteration
BaseScoreStep(f) ==
  [f EXCEPT !.words = Split(Lower(f.text)),
            !.pos_score = f.features.positive_word_count * Unit,
            !.neg_score = f.features.negative_word_count * Unit,
            !.i = 1,
            !.pc = IF Split(Lower(f.text)) = <<>> THEN "emoji"
                   ELSE "intensify"]

\* one iteration of `for i, word in enumerate(words)`, index i (from 1)
IntensifierStep(f) ==
  LET word == f.words[f.i]
      multiplier == Fixed(intensifiers[word])
      hit == word \in DOMAIN intensifiers /\ f.i + 1 <= Len(f.words)
      next_word == f.words[f.i + 1]
      g == IF hit /\ next_word \in positive_words
             THEN [f EXCEPT !.pos_score = @ + Times(multiplier, 500)]
           ELSE IF hit /\ next_word \in negative_words
             THEN [f EXCEPT !.neg_score = @ + Times(multiplier, 500)]
           ELSE f
  IN  IF f.i < Len(f.words) THEN [g EXCEPT !.i = @ + 1]
      ELSE [g EXCEPT !.i = 1, !.pc = "negate"]

\* SwapNegation damping both sides without exchanging them
SwapNegationNoSwap(pos, neg) == <<Times(pos, 700), Times(neg, 700)>>

\* `pos_score, neg_score = neg_score * 0.7, pos_score * 0.7`
SwapNegation(pos, neg) == <<Times(neg, 700), Times(pos, 700)>>

\* NegationStep scanning words[1:], the first word never tested
NegationStepSkipFirst(f) ==
  LET word == f.words[f.i]
      sw == SwapNegation(f.pos_score, f.neg_score)
  IN  IF word \in negations /\ f.i > 1
        THEN [f EXCEPT !.negation_active = TRUE, !.pos_score = sw[1],
                       !.neg_score = sw[2], !.pc = "emoji"]
      ELSE IF f.i < Len(f.words) THEN [f EXCEPT !.i = @ + 1]
      ELSE [f EXCEPT !.pc = "emoji"]

\* NegationStep without the break: every negation swaps
NegationStepNoBreak(f) ==
  LET word == f.words[f.i]
      sw == SwapNegation(f.pos_score, f.neg_score)
      g == IF word \in negations
             THEN [f EXCEPT !.negation_active = TRUE, !.pos_score = sw[1],
                            !.neg_score = sw[2]]
           ELSE f
  IN  IF f.i < Len(f.words) THEN [g EXCEPT !.i = @ + 1]
      ELSE [g EXCEPT !.pc = "emoji"]

\* one iteration of `for word in words`, leaving the loop at the first
\* negation (break) or after the last word
NegationStep(f) ==
  LET word == f.words[f.i]
      sw == SwapNegation(f.pos_score, f.neg_score)
  IN  IF word \in negations
        THEN [f EXCEPT !.negation_active = TRUE, !.pos_score = sw[1],
                       !.neg_score = sw[2], !.pc = "emoji"]
      ELSE IF f.i < Len(f.words) THEN [f EXCEPT !.i = @ + 1]
      ELSE [f EXCEPT !.pc = "emoji"]

EmojiStep(f) ==
  [f EXCEPT !.pos_score = @ + f.features.positive_emoji_count * Fixed(500),
            !.neg_score = @ + f.features.negative_emoji_count * Fixed(500),
            !.pc = "exclaim"]

\* ExclamationStep with `pos_score >= neg_score`: a tie scales pos_score
ExclamationStepTies(f) ==
  LET factor == 1000 + f.features.exclamation_count * 100
      g == IF f.features.exclamation_count > 0 /\ f.pos_score >= f.neg_score
             THEN [f EXCEPT !.pos_score = Times(@, factor)]
           ELSE IF f.features.exclamation_count > 0
                   /\ f.neg_score > f.pos_score
             THEN [f EXCEPT !.neg_score = Times(@, factor)]
           ELSE f
  IN  [g EXCEPT !.pc = "final"]

ExclamationStep(f) ==
  LET factor == 1000 + f.features.exclamation_count * 100
      g == IF f.features.exclamation_count > 0 /\ f.pos_score > f.neg_score
             THEN [f EXCEPT !.pos_score = Times(@, factor)]
           ELSE IF f.features.exclamation_count > 0
                   /\ f.neg_score > f.pos_score
             THEN [f EXCEPT !.neg_score = Times(@, factor)]
           ELSE f
  IN  [g EXCEPT !.pc = "final"]

\* Label with the thresholds inclusive (>= 0.2, <= -0.2)
LabelInclusive(score) ==
  IF ~Less(score, 200) THEN "Pozitif"
  ELSE IF ~Greater(score, -200) THEN "Negatif"
  ELSE "Notr"

\* the label of a score (lines 152-157)
Label(score) ==
  IF Greater(score, 200) THEN "Pozitif"
  ELSE IF Less(score, -200) THEN "Negatif"
  ELSE "Notr"

\* Confidence without the min(..., 1.0)
ConfidenceUncapped(score) ==
  <<Abs(score[1]) * 10 + 3 * score[2], 10 * score[2]>>

\* min(abs(score) + 0.3, 1.0), 0.3 being 3/10
Confidence(score) ==
  LET c == <<Abs(score[1]) * 10 + 3 * score[2], 10 * score[2]>>
  IN  IF c[1] < c[2] THEN c ELSE <<1, 1>>

\* `total == 0`
IsZeroTotal(f) == f.pos_score + f.neg_score = 0

FinalScoreStep(f) ==
  IF IsZeroTotal(f)
    THEN [f EXCEPT !.score = <<0, 1>>, !.label = "Notr",
                   !.confidence = <<1, 2>>, !.pc = "return"]
  ELSE LET score == <<f.pos_score - f.neg_score, f.pos_score + f.neg_score>>
       IN  [f EXCEPT !.score = score, !.label = Label(score),
                     !.confidence = Confidence(score), !.pc = "return"]

\* the record returned by analyze() after scoring
ScoredResult(score, label, confidence) ==
  [score |-> Round3(score), label |-> label,
   confidence |-> Round3(confidence), polarity |-> Round3(score),
   subjectivity |-> Round3(confidence),
   model |-> "Turkish Lexicon + Features"]

ReturnStep(f) ==
  [f EXCEPT !.result = ScoredResult(f.score, f.label, f.confidence),
            !.pc = "done"]

\* ------------------------------------------------------------- the inputs
\* the tokens texts are built from: a positive word (capitalised), a
\* negative word, the word of both tables, two intensifiers, a negation, a
\* word of no table, "!", a positive and a negative emoji, and a positive
\* word with "!" attached
Tokens ==
  {<<"Harika">>, <<"kotu">>, <<"hayal">>, <<"cok">>, <<"bir">>, <<"degil">>,
   <<"film">>, <<"!">>, <<"U+1F60A">>, <<"U+1F622">>, <<"Harika", "!">>}

TokenSeqs(n) == UNION {[1..k -> Tokens] : k \in 0..n}

RECURSIVE Join(_)
Join(ts) ==
  IF ts = <<>> THEN <<>>
  ELSE IF Len(ts) = 1 THEN ts[1]
  ELSE ts[1] \o <<" ">> \o Join(Tail(ts))

Pad(n) == [k \in 1..n |-> " "]

\* the texts analyze() is called with: up to MaxTokens tokens separated by
\* single spaces, and the texts of at most one token with up to MaxPad
\* spaces before and after
Texts ==
  {Join(ts) : ts \in TokenSeqs(MaxTokens)}
    \cup {Pad(p) \o Join(ts) \o Pad(q) :
            p \in 0..MaxPad, q \in 0..MaxPad, ts \in TokenSeqs(1)}

\* the texts of concurrent callers, after the samples of __main__
ConcTexts ==
  {<<>>,
   <<"Harika", "!", " ", "U+1F60A">>,
   <<"kotu", " ", "degil">>,
   <<"cok", " ", "kotu">>}

Threads == 1..NThreads

\* ------------------------------------------------------------------- Init
\* __init__(nlp): the tables of lines 20-49 and the nlp argument
Init ==
  /\ positive_words = PositiveWords
  /\ negative_words = NegativeWords
  /\ intensifiers = Intensifiers
  /\ negations = Negations
  /\ nlp \in NlpValues
  /\ frame = [t \in Threads |-> IdleFrame]

\* ---------------------------------------------------------------- actions
At(t, pc) == frame[t].pc = pc

Put(t, f) == /\ frame' = [frame EXCEPT ![t] = f]
             /\ UNCHANGED self

\* a caller calls analyzer.analyze(text), text one of texts
Call(t, texts) == /\ At(t, "idle")
                  /\ \E text \in texts : Put(t, Entry(text))

AnalyzeEmpty(t) == /\ At(t, "analyze")
                   /\ IsBlank(frame[t].text)
                   /\ Put(t, EmptyReturn(frame[t]))

\* ExtractFeatures keeping the features on the instance (self.features):
\* a call that has not read its features yet reads these
ExtractFeaturesShared(t) ==
  /\ At(t, "analyze")
  /\ ~IsBlank(frame[t].text)
  /\ frame' = [u \in Threads |->
                IF u = t THEN ExtractFeaturesStep(frame[t])
                ELSE IF frame[u].pc \in {"annotate", "base"}
                  THEN [frame[u] EXCEPT
                          !.features = LexiconFeatures(frame[t].text)]
                ELSE frame[u]]
  /\ UNCHANGED self

ExtractFeatures(t) == /\ At(t, "analyze")
                      /\ ~IsBlank(frame[t].text)
                      /\ Put(t, ExtractFeaturesStep(frame[t]))

Annotate(t) == /\ At(t, "annotate")
               /\ \E doc \in Docs : Put(t, AnnotateStep(frame[t], doc))

BaseScore(t) == /\ At(t, "base")
                /\ Put(t, BaseScoreStep(frame[t]))

ApplyIntensifier(t) == /\ At(t, "intensify")
                       /\ Put(t, IntensifierStep(frame[t]))

HandleNegation(t) == /\ At(t, "negate")
                     /\ Put(t, NegationStep(frame[t]))

EmojiContribution(t) == /\ At(t, "emoji")
                        /\ Put(t, EmojiStep(frame[t]))

Exclamation(t) == /\ At(t, "exclaim")
                  /\ Put(t, ExclamationStep(frame[t]))

FinalScore(t) == /\ At(t, "final")
                 /\ Put(t, FinalScoreStep(frame[t]))

Return(t) == /\ At(t, "return")
             /\ Put(t, ReturnStep(frame[t]))

\* the caller has the result (or the exception); the frame is gone
Finish(t) == /\ frame[t].pc \in {"done", "raised"}
             /\ Put(t, IdleFrame)

Step(t) ==
  \/ AnalyzeEmpty(t)
  \/ ExtractFeatures(t)
  \/ Annotate(t)
  \/ BaseScore(t)
  \/ ApplyIntensifier(t)
  \/ HandleNegation(t)
  \/ EmojiContribution(t)
  \/ Exclamation(t)
  \/ FinalScore(t)
  \/ Return(t)
  \/ Finish(t)

\* one caller, any text
Next ==
  \/ Call(1, Texts)
  \/ Step(1)

Spec == Init /\ [][Next]_vars

\* NThreads callers of the one instance, interleaved step by step
NextConc ==
  \/ \E t \in Threads : Call(t, ConcTexts)
  \/ \E t \in Threads : Step(t)

SpecConc == Init /\ [][NextConc]_vars

\* ------------------------------------------------- the call run in isolation
\* the step the frame f takes next, in an analyzer built with nlp = n
StepOf(n, f) ==
  CASE f.pc = "analyze" ->
         IF IsBlank(f.text) THEN EmptyReturn(f) ELSE ExtractFeaturesStep(f)
    [] f.pc = "annotate" -> AnnotateWith(n, f, CHOOSE doc \in Docs : TRUE)
    [] f.pc = "base" -> BaseScoreStep(f)
    [] f.pc = "intensify" -> IntensifierStep(f)
    [] f.pc = "negate" -> NegationStep(f)
    [] f.pc = "emoji" -> EmojiStep(f)
    [] f.pc = "exclaim" -> ExclamationStep(f)
    [] f.pc = "final" -> FinalScoreStep(f)
    [] f.pc = "return" -> ReturnStep(f)
    [] OTHER -> f

RECURSIVE Run(_, _)
Run(n, f) ==
  IF f.pc \in {"idle", "done", "raised"} THEN f ELSE Run(n, StepOf(n, f))

\* analyze(text) run alone, start to end, by this analyzer and by one built
\* without an annotator
Analyze(text) == Run(nlp, Entry(text))

AnalyzeWithoutNlp(text) == Run("None", Entry(text))

\* ------------------------------------------------------- binary64 floats
\* A natural number of any size is the sequence of its digits in base
\* Base, least significant first, with no leading zero digit (0 is <<>>).
Base == 32768

DigitBits == 15

RECURSIVE BTrim(_)
BTrim(a) ==
  IF a = <<>> THEN a
  ELSE IF a[Len(a)] = 0 THEN BTrim(SubSeq(a, 1, Len(a) - 1)) ELSE a

BFromInt(n) ==
  BTrim(<<n % Base, (n \div Base) % Base, n \div (Base * Base)>>)

Digit(a, k) == IF k <= Len(a) THEN a[k] ELSE 0

RECURSIVE BAddFrom(_, _, _, _)
BAddFrom(a, b, k, carry) ==
  IF k > Len(a) /\ k > Len(b) THEN (IF carry = 0 THEN <<>> ELSE <<carry>>)
  ELSE LET s == Digit(a, k) + Digit(b, k) + carry
       IN  <<s % Base>> \o BAddFrom(a, b, k + 1, s \div Base)

BAdd(a, b) == BAddFrom(a, b, 1, 0)

\* a - b for a >= b
RECURSIVE BSubFrom(_, _, _, _)
BSubFrom(a, b, k, borrow) ==
  IF k > Len(a) THEN <<>>
  ELSE LET d == a[k] - Digit(b, k) - borrow
       IN  IF d < 0 THEN <<d + Base>> \o BSubFrom(a, b, k + 1, 1)
           ELSE <<d>> \o BSubFrom(a, b, k + 1, 0)

BSub(a, b) == BTrim(BSubFrom(a, b, 1, 0))

\* -1, 0, 1 as a < b, a = b, a > b
RECURSIVE BCmpFrom(_, _, _)
BCmpFrom(a, b, k) ==
  IF k = 0 THEN 0
  ELSE IF a[k] < b[k] THEN -1
  ELSE IF a[k] > b[k] THEN 1
  ELSE BCmpFrom(a, b, k - 1)

BCmp(a, b) ==
  IF Len(a) < Len(b) THEN -1
  ELSE IF Len(a) > Len(b) THEN 1
  ELSE BCmpFrom(a, b, Len(a))

\* a * c for a digit c
RECURSIVE BMulDigitFrom(_, _, _, _)
BMulDigitFrom(a, c, k, carry) ==
  IF k > Len(a) THEN (IF carry = 0 THEN <<>> ELSE <<carry>>)
  ELSE LET s == a[k] * c + carry
       IN  <<s % Base>> \o BMulDigitFrom(a, c, k + 1, s \div Base)

BMulDigit(a, c) == IF c = 0 THEN <<>> ELSE BMulDigitFrom(a, c, 1, 0)

RECURSIVE BMulFrom(_, _, _)
BMulFrom(a, b, k) ==
  IF k > Len(b) THEN <<>>
  ELSE BAdd(BMulDigit(a, b[k]), BTrim(<<0>> \o BMulFrom(a, b, k + 1)))

BMul(a, b) == BMulFrom(a, b, 1)

Zeros(n) == [k \in 1..n |-> 0]

\* a * 2^n
BShl(a, n) ==
  IF a = <<>> THEN <<>>
  ELSE Zeros(n \div DigitBits) \o BMulDigit(a, 2 ^ (n % DigitBits))

\* floor(a / d) for a digit d > 0, from the most significant digit down
RECURSIVE BDivDigitFrom(_, _, _, _)
BDivDigitFrom(a, d, k, rem) ==
  IF k = 0 THEN <<>>
  ELSE LET s == rem * Base + a[k]
       IN  BDivDigitFrom(a, d, k - 1, s % d) \o <<s \div d>>

\* floor(a / 2^n)
BShr(a, n) ==
  LET q == n \div DigitBits
      high == IF q >= Len(a) THEN <<>> ELSE SubSeq(a, q + 1, Len(a))
  IN  BTrim(BDivDigitFrom(high, 2 ^ (n % DigitBits), Len(high), 0))

RECURSIVE IntBits(_)
IntBits(n) == IF n = 0 THEN 0 ELSE 1 + IntBits(n \div 2)

\* the number of bits of a
BBits(a) ==
  IF a = <<>> THEN 0 ELSE DigitBits * (Len(a) - 1) + IntBits(a[Len(a)])

BOdd(a) == a # <<>> /\ a[1] % 2 = 1

\* A float is sgn * m * 2^e with m = 0 (and sgn = 1, e = 0) or
\* 2^52 <= m < 2^53; the exponent range is never left by the scores.
MantBits == 53

FZero == [sgn |-> 1, m |-> <<>>, e |-> 0]

\* sgn * M * 2^E rounded to the nearest float, ties to even
FRound(sgn, M, E) ==
  LET L == BBits(M)
      sh == L - MantBits
      q == BShr(M, sh)
      rem == BSub(M, BShl(q, sh))
      half == BShl(<<1>>, sh - 1)
      c == BCmp(rem, half)
      up == c > 0 \/ (c = 0 /\ BOdd(q))
      r == IF up THEN BAdd(q, <<1>>) ELSE q
  IN  IF M = <<>> THEN FZero
      ELSE IF sh <= 0 THEN [sgn |-> sgn, m |-> BShl(M, -sh), e |-> E + sh]
      ELSE IF BBits(r) > MantBits
        THEN [sgn |-> sgn, m |-> BShr(r, 1), e |-> E + sh + 1]
      ELSE [sgn |-> sgn, m |-> r, e |-> E + sh]

\* float(n) for an int n >= 0
FFromInt(n) == FRound(1, BFromInt(n), 0)

FNeg(a) == IF a.m = <<>> THEN a ELSE [a EXCEPT !.sgn = -a.sgn]

FAbs(a) == [a EXCEPT !.sgn = 1]

FMul(a, b) == FRound(a.sgn * b.sgn, BMul(a.m, b.m), a.e + b.e)

FAdd(a, b) ==
  LET e == IF a.e < b.e THEN a.e ELSE b.e
      A == BShl(a.m, a.e - e)
      B == BShl(b.m, b.e - e)
      c == BCmp(A, B)
  IN  IF a.m = <<>> THEN b
      ELSE IF b.m = <<>> THEN a
      ELSE IF a.sgn = b.sgn THEN FRound(a.sgn, BAdd(A, B), e)
      ELSE IF c = 0 THEN FZero
      ELSE IF c > 0 THEN FRound(a.sgn, BSub(A, B), e)
      ELSE FRound(b.sgn, BSub(B, A), e)

FSub(a, b) == FAdd(a, FNeg(b))

\* -1, 0, 1 as a < b, a = b, a > b
FCmp(a, b) == FSub(a, b).sgn * (IF a = b THEN 0 ELSE 1)

FLess(a, b) == FCmp(a, b) < 0

FGreater(a, b) == FCmp(a, b) > 0

\* the largest digit c with c * d <= rem, for rem < d * Base: its bits are
\* tried from 2^bit down, above the digit acc found so far
RECURSIVE BQuotDigit(_, _, _, _)
BQuotDigit(rem, d, bit, acc) ==
  IF bit < 0 THEN acc
  ELSE IF BCmp(BMulDigit(d, acc + 2 ^ bit), rem) <= 0
    THEN BQuotDigit(rem, d, bit - 1, acc + 2 ^ bit)
  ELSE BQuotDigit(rem, d, bit - 1, acc)

\* <<the n + 1 digits of floor(rem * Base^n / d), the remainder>> for
\* rem < d * Base
RECURSIVE BDivDigits(_, _, _)
BDivDigits(rem, d, n) ==
  LET c == BQuotDigit(rem, d, DigitBits - 1, 0)
      r == BSub(rem, BMulDigit(d, c))
      rest == BDivDigits(BTrim(<<0>> \o r), d, n - 1)
  IN  IF n = 0 THEN <<<<c>>, r>>
      ELSE <<rest[1] \o <<c>>, rest[2]>>

DivDigits == 4

\* a / b for b # 0: the quotient of the mantissas to DivDigits digits
\* after the point and one more bit that tells a remainder
FDiv(a, b) ==
  LET qr == BDivDigits(a.m, b.m, DivDigits)
      q == BTrim(qr[1])
      M == BAdd(BAdd(q, q), IF qr[2] = <<>> THEN <<>> ELSE <<1>>)
  IN  IF a.m = <<>> THEN FZero
      ELSE FRound(a.sgn * b.sgn, M, a.e - b.e - DivDigits * DigitBits - 1)

\* the float of the decimal literal n / 1000
Literal(milli) == FDiv(FFromInt(milli), FFromInt(1000))

\* round(x, 3) in thousandths: x * 1000 to the nearest integer, ties to even
FRound3(x) ==
  LET M == BMul(x.m, BFromInt(1000))
      q == BShr(M, -x.e)
      rem == BSub(M, BShl(q, -x.e))
      half == BShl(<<1>>, -x.e - 1)
      c == BCmp(rem, half)
      r == IF c > 0 \/ (c = 0 /\ BOdd(q)) THEN BAdd(q, <<1>>) ELSE q
  IN  x.sgn * (Digit(r, 1) + Base * Digit(r, 2))

\* ---------------------------------------- the literals of the score, as floats
Half == Literal(500)

Damping == Literal(700)

Tenth == Literal(100)

LabelThreshold == Literal(200)

ConfidenceFloor == Literal(300)

FOne == FFromInt(1)

\* --------------------------------- calculate_sentiment_score in binary64
\* The steps of calculate_sentiment_score with pos_score, neg_score, score
\* and confidence held as floats and every operation rounded as the
\* interpreter rounds it.
BaseScoreStep64(f) ==
  [f EXCEPT !.words = Split(Lower(f.text)),
            !.pos_score = FFromInt(f.features.positive_word_count),
            !.neg_score = FFromInt(f.features.negative_word_count),
            !.i = 1,
            !.pc = IF Split(Lower(f.text)) = <<>> THEN "emoji"
                   ELSE "intensify"]

\* `pos_score += 0.5 * multiplier` and its neg_score twin, at index i
IntensifierStep64(f) ==
  LET word == f.words[f.i]
      boost == FMul(Half, Literal(intensifiers[word]))
      hit == word \in DOMAIN intensifiers /\ f.i + 1 <= Len(f.words)
      next_word == f.words[f.i + 1]
      g == IF hit /\ next_word \in positive_words
             THEN [f EXCEPT !.pos_score = FAdd(@, boost)]
           ELSE IF hit /\ next_word \in negative_words
             THEN [f EXCEPT !.neg_score = FAdd(@, boost)]
           ELSE f
  IN  IF f.i < Len(f.words) THEN [g EXCEPT !.i = @ + 1]
      ELSE [g EXCEPT !.i = 1, !.pc = "negate"]

\* `pos_score, neg_score = neg_score * 0.7, pos_score * 0.7`
SwapNegation64(pos, neg) == <<FMul(neg, Damping), FMul(pos, Damping)>>

NegationStep64(f) ==
  LET word == f.words[f.i]
      sw == SwapNegation64(f.pos_score, f.neg_score)
  IN  IF word \in negations
        THEN [f EXCEPT !.negation_active = TRUE, !.pos_score = sw[1],
                       !.neg_score = sw[2], !.pc = "emoji"]
      ELSE IF f.i < Len(f.words) THEN [f EXCEPT !.i = @ + 1]
      ELSE [f EXCEPT !.pc = "emoji"]

EmojiStep64(f) ==
  [f EXCEPT
     !.pos_score =
       FAdd(@, FMul(FFromInt(f.features.positive_emoji_count), Half)),
     !.neg_score =
       FAdd(@, FMul(FFromInt(f.features.negative_emoji_count), Half)),
     !.pc = "exclaim"]

\* `... *= (1 + features['exclamation_count'] * 0.1)` on the larger side
ExclamationStep64(f) ==
  LET factor == FAdd(FOne, FMul(FFromInt(f.features.exclamation_count),
                                Tenth))
      g == IF f.features.exclamation_count > 0
              /\ FGreater(f.pos_score, f.neg_score)
             THEN [f EXCEPT !.pos_score = FMul(@, factor)]
           ELSE IF f.features.exclamation_count > 0
                   /\ FGreater(f.neg_score, f.pos_score)
             THEN [f EXCEPT !.neg_score = FMul(@, factor)]
           ELSE f
  IN  [g EXCEPT !.pc = "final"]

Label64(score) ==
  IF FGreater(score, LabelThreshold) THEN "Pozitif"
  ELSE IF FLess(score, FNeg(LabelThreshold)) THEN "Negatif"
  ELSE "Notr"

\* min(abs(score) + 0.3, 1.0)
Confidence64(score) ==
  LET c == FAdd(FAbs(score), ConfidenceFloor)
  IN  IF FLess(FOne, c) THEN FOne ELSE c

FinalScoreStep64(f) ==
  LET total == FAdd(f.pos_score, f.neg_score)
      score == FDiv(FSub(f.pos_score, f.neg_score), total)
  IN  IF total = FZero
        THEN [f EXCEPT !.score = FZero, !.label = "Notr",
                       !.confidence = Half, !.pc = "return"]
      ELSE [f EXCEPT !.score = score, !.label = Label64(score),
                     !.confidence = Confidence64(score), !.pc = "return"]

\* the record returned by analyze() after scoring, numbers in thousandths
ScoredResult64(score, label, confidence) ==
  LET s == FRound3(score)
      c == FRound3(confidence)
  IN  [score |-> s, label |-> label, confidence |-> c, polarity |-> s,
       subjectivity |-> c, model |-> "Turkish Lexicon + Features"]

ReturnStep64(f) ==
  [f EXCEPT !.result = ScoredResult64(f.score, f.label, f.confidence),
            !.pc = "done"]

\* ---------------------------------------------- the inputs of the float run
MaxTokens64 == 6

\* a positive word, a negative word, the intensifier of 1.2, a negation and
\* a word of no table with "!!" attached
Tokens64 ==
  {<<"Harika">>, <<"kotu">>, <<"bir">>, <<"degil">>, <<"film", "!", "!">>}

Texts64 == {Join(ts) : ts \in UNION {[1..k -> Tokens64] : k \in 0..MaxTokens64}}

\* ------------------------------------------------ actions of the float run
BaseScore64(t) == /\ At(t, "base")
                  /\ Put(t, BaseScoreStep64(frame[t]))

ApplyIntensifier64(t) == /\ At(t, "intensify")
                         /\ Put(t, IntensifierStep64(frame[t]))

HandleNegation64(t) == /\ At(t, "negate")
                       /\ Put(t, NegationStep64(frame[t]))

EmojiContribution64(t) == /\ At(t, "emoji")
                          /\ Put(t, EmojiStep64(frame[t]))

Exclamation64(t) == /\ At(t, "exclaim")
                    /\ Put(t, ExclamationStep64(frame[t]))

FinalScore64(t) == /\ At(t, "final")
                   /\ Put(t, FinalScoreStep64(frame[t]))

Return64(t) == /\ At(t, "return")
               /\ Put(t, ReturnStep64(frame[t]))

Step64(t) ==
  \/ AnalyzeEmpty(t)
  \/ ExtractFeatures(t)
  \/ Annotate(t)
  \/ BaseScore64(t)
  \/ ApplyIntensifier64(t)
  \/ HandleNegation64(t)
  \/ EmojiContribution64(t)
  \/ Exclamation64(t)
  \/ FinalScore64(t)
  \/ Return64(t)
  \/ Finish(t)

\* one caller, the scores computed in binary64
Next64 ==
  \/ Call(1, Texts64)
  \/ Step64(1)

\* the analyzer built with no annotator, as __main__ builds it
Init64 == Init /\ nlp = "None"

Spec64 == Init64 /\ [][Next64]_vars

\* ------------------------------------------------------------ properties
Returned(t) == frame[t].pc = "done"

\* the text is empty or has whitespace only
OnlyWhitespace(text) == \A k \in 1..Len(text) : text[k] = " "

Scored(t) == Returned(t) /\ ~OnlyWhitespace(frame[t].text)

\* C1: whatever the text, the returned score is in [-1, 1] and the returned
\* confidence in [0, 1] (thousandths here); pos_score and neg_score are never
\* negative, and the quotient (pos - neg) / total is never formed with
\* total = 0.
C1_Bounded ==
  \A t \in Threads :
    /\ frame[t].pos_score >= 0
    /\ frame[t].neg_score >= 0
    /\ frame[t].score[2] > 0
    /\ frame[t].confidence[2] > 0
    /\ Returned(t) =>
         /\ -1000 <= frame[t].result.score /\ frame[t].result.score <= 1000
         /\ 0 <= frame[t].result.confidence
         /\ frame[t].result.confidence <= 1000

\* a text with both sides non-zero, the larger scaled by "!", is scored
C1_Witness ==
  \E t \in Threads :
    /\ Scored(t)
    /\ frame[t].pos_score > 0 /\ frame[t].neg_score > 0
    /\ frame[t].features.exclamation_count > 0
    /\ frame[t].result.score < 0

\* C2: for an empty or whitespace-only text analyze returns without calling
\* extract_features or the annotator, and returns score 0.0, label Notr and
\* confidence 0.0.
C2_EmptyShortCircuit ==
  \A t \in Threads :
    (frame[t].pc # "idle" /\ OnlyWhitespace(frame[t].text)) =>
      /\ frame[t].pc \in {"analyze", "done"}
      /\ frame[t].features = NoFeatures
      /\ Returned(t) =>
           /\ frame[t].result.score = 0
           /\ frame[t].result.label = "Notr"
           /\ frame[t].result.confidence = 0

\* a whitespace-only text has been answered by an analyzer with an annotator
C2_Witness ==
  \E t \in Threads :
    /\ Returned(t)
    /\ frame[t].text # <<>> /\ OnlyWhitespace(frame[t].text)
    /\ nlp = "annotator"

\* the confidence min(|p - n| / (p + n) + 0.3, 1.0), rounded, in thousandths
C3_Confidence(p, n) ==
  IF 10 * Abs(p - n) + 3 * (p + n) >= 10 * (p + n) THEN 1000
  ELSE Round3(<<10 * Abs(p - n) + 3 * (p + n), 10 * (p + n)>>)

\* C3: for a non-blank text with final sums p = pos_score, n = neg_score:
\* if p + n = 0 the result is score 0.0, Notr, confidence 0.5; otherwise the
\* label is Pozitif exactly when (p - n) / (p + n) > 0.2, Negatif exactly
\* when it is < -0.2, Notr otherwise, and the confidence is
\* min(|(p - n) / (p + n)| + 0.3, 1.0).
C3_LabelAndConfidence ==
  \A t \in Threads :
    Scored(t) =>
      LET p == frame[t].pos_score
          n == frame[t].neg_score
          r == frame[t].result
      IN  IF p + n = 0
            THEN r.score = 0 /\ r.label = "Notr" /\ r.confidence = 500
          ELSE /\ r.label = "Pozitif" <=> 5 * (p - n) > p + n
               /\ r.label = "Negatif" <=> 5 * (p - n) < -(p + n)
               /\ r.label \in {"Pozitif", "Negatif", "Notr"}
               /\ r.confidence = C3_Confidence(p, n)

\* a text whose raw score is exactly 0.2 has been labelled
C3_Witness ==
  \E t \in Threads :
    /\ Scored(t)
    /\ frame[t].pos_score + frame[t].neg_score > 0
    /\ 5 * (frame[t].pos_score - frame[t].neg_score)
         = frame[t].pos_score + frame[t].neg_score
    /\ frame[t].result.label = "Notr"

\* C4: in every returned record polarity equals score and subjectivity equals
\* confidence.
C4_Aliases ==
  \A t \in Threads :
    Returned(t) =>
      /\ frame[t].result.polarity = frame[t].result.score
      /\ frame[t].result.subjectivity = frame[t].result.confidence

\* C5: when the annotator raises for a non-blank text, analyze still returns,
\* and returns what an analyzer built without an annotator returns.
C5_AnnotatorFailureContained ==
  \A t \in Threads :
    (nlp = "failing_annotator" /\ ~OnlyWhitespace(frame[t].text)) =>
      /\ frame[t].pc # "raised"
      /\ Returned(t) =>
           frame[t].result = AnalyzeWithoutNlp(frame[t].text).result

\* the tokens of the text, lower-cased
WordsOf(t) == Split(Lower(frame[t].text))

NoEmoji(t) == \A k \in 1..Len(frame[t].text) :
                frame[t].text[k] \notin positive_emojis \cup negative_emojis

\* a negative word and a negation, no positive word, no emoji
C6_Shape(t) ==
  /\ \E k \in 1..Len(WordsOf(t)) : WordsOf(t)[k] \in NegativeWords
  /\ \E k \in 1..Len(WordsOf(t)) : WordsOf(t)[k] \in Negations
  /\ \A k \in 1..Len(WordsOf(t)) : WordsOf(t)[k] \notin PositiveWords
  /\ NoEmoji(t)

\* C6 as claimed: a text with a negative word and a negation, no positive
\* word and no emoji gets score <= 0 and the label Negatif or Notr.
C6_NegatedNegativeNotPositive ==
  \A t \in Threads :
    (Returned(t) /\ C6_Shape(t)) =>
      /\ frame[t].result.score <= 0
      /\ frame[t].result.label \in {"Negatif", "Notr"}

\* C6 as amended: a text with a negative word and a negation, no positive
\* word and no emoji gets score 1.0 and the label Pozitif.
C6_NegatedNegativeIsPositive ==
  \A t \in Threads :
    (Returned(t) /\ C6_Shape(t)) =>
      /\ frame[t].result.score = 1000
      /\ frame[t].result.label = "Pozitif"

\* such a text, with an intensified negative word, has been scored
C6_Witness ==
  \E t \in Threads :
    /\ Returned(t)
    /\ C6_Shape(t)
    /\ frame[t].features.intensifier_count > 0
    /\ frame[t].pos_score > Times(Unit, 700)

\* exactly one positive word, a negation before it, no negative word, no
\* emoji
C7_Shape(t) ==
  /\ Cardinality({k \in 1..Len(WordsOf(t)) :
                    WordsOf(t)[k] \in PositiveWords}) = 1
  /\ \E k \in 1..Len(WordsOf(t)) :
       /\ WordsOf(t)[k] \in PositiveWords
       /\ \E j \in 1..(k - 1) : WordsOf(t)[j] \in Negations
  /\ \A k \in 1..Len(WordsOf(t)) : WordsOf(t)[k] \notin NegativeWords
  /\ NoEmoji(t)

\* C7: a text with exactly one positive word, a negation before it, no
\* negative word and no emoji gets score <= 0 and a label other than
\* Pozitif, whatever intensifiers and "!" it has.
C7_NegatedPositiveNotPositive ==
  \A t \in Threads :
    (Returned(t) /\ C7_Shape(t)) =>
      /\ frame[t].result.score <= 0
      /\ frame[t].result.label # "Pozitif"

\* such a text with "!" has been scored, the negation being its first word
C7_Witness ==
  \E t \in Threads :
    /\ Returned(t)
    /\ C7_Shape(t)
    /\ WordsOf(t)[1] \in Negations
    /\ frame[t].features.exclamation_count > 0

\* the atom at k is a token of its own
StandaloneAt(text, k) ==
  /\ text[k] # " "
  /\ k = 1 \/ text[k - 1] = " "
  /\ k = Len(text) \/ text[k + 1] = " "

\* a word of no lexicon table, no emoji, no "!"
PlainAtom(a) ==
  /\ LowerAtom(a) \notin PositiveWords \cup NegativeWords
  /\ LowerAtom(a) \notin (DOMAIN Intensifiers) \cup Negations
  /\ a \notin positive_emojis \cup negative_emojis
  /\ a # "!"

NegationAt(text, k) == StandaloneAt(text, k) /\ LowerAtom(text[k]) \in Negations

SameOutcome(r1, r2) ==
  /\ r1.score = r2.score
  /\ r1.label = r2.label
  /\ r1.confidence = r2.confidence

\* C8: for a text T with a negation marker, appending one or two negation
\* markers, or replacing a plain token after the first negation by a
\* negation marker, leaves score, label and confidence as they are.
C8_FirstNegationOnly ==
  \A t \in Threads :
    (Returned(t) /\ \E j \in 1..Len(frame[t].text) : NegationAt(frame[t].text, j)) =>
      LET T == frame[t].text
          r == frame[t].result
      IN  /\ \A m \in Negations :
               /\ SameOutcome(r, Analyze(T \o <<" ", m>>).result)
               /\ SameOutcome(r, Analyze(T \o <<" ", m, " ", "degil">>).result)
          /\ \A k \in 1..Len(T) :
               (/\ StandaloneAt(T, k)
                /\ PlainAtom(T[k])
                /\ \E j \in 1..(k - 1) : NegationAt(T, j)) =>
                 \A m \in Negations :
                   SameOutcome(r, Analyze([T EXCEPT ![k] = m]).result)

\* a text with a sentiment word, a negation and a plain token after it has
\* been scored
C8_Witness ==
  \E t \in Threads :
    /\ Returned(t)
    /\ frame[t].pos_score + frame[t].neg_score > 0
    /\ \E k \in 1..Len(frame[t].text) :
         /\ StandaloneAt(frame[t].text, k)
         /\ PlainAtom(frame[t].text[k])
         /\ \E j \in 1..(k - 1) : NegationAt(frame[t].text, j)

\* the call of t has ended, by a return or by an exception
Ended(t) == frame[t].pc \in {"done", "raised"}

C9_OwnTextOnly ==
  \A t \in Threads :
    Ended(t) =>
      /\ frame[t].pc = Analyze(frame[t].text).pc
      /\ frame[t].result = Analyze(frame[t].text).result
      /\ \A u \in Threads :
           (Ended(u) /\ frame[u].text = frame[t].text) =>
             frame[u].result = frame[t].result

\* C9: whatever the interleaving of the analyze calls on one instance, no
\* step changes positive_words, negative_words, intensifiers, negations or
\* nlp, and every call ends with the result its own text has when analysed
\* alone, so that equal texts end with equal results.
C9_CallsIndependent ==
  /\ [](C9_OwnTextOnly)
  /\ [][UNCHANGED self]_vars

\* a call has returned while a call on another text is between
\* extract_features and the use of its features
C9_Witness ==
  \E t, u \in Threads :
    /\ t # u
    /\ Returned(t)
    /\ frame[u].pc = "base"
    /\ ~OnlyWhitespace(frame[t].text)
    /\ frame[u].text # frame[t].text

\* steps (1) and (2) for the words W: the word counts plus 0.5 * m for every
\* intensifier directly followed by a positive word (pos) or else by a
\* negative word (neg)
C10_Pos2(W) ==
  LET f[k \in 0..Len(W)] ==
        IF k = 0 THEN 0
        ELSE f[k - 1]
             + (IF W[k] \in PositiveWords THEN Unit ELSE 0)
             + (IF /\ k < Len(W)
                   /\ W[k] \in DOMAIN Intensifiers
                   /\ W[k + 1] \in PositiveWords
                THEN (Intensifiers[W[k]] * Unit) \div 2000 ELSE 0)
  IN  f[Len(W)]

C10_Neg2(W) ==
  LET f[k \in 0..Len(W)] ==
        IF k = 0 THEN 0
        ELSE f[k - 1]
             + (IF W[k] \in NegativeWords THEN Unit ELSE 0)
             + (IF /\ k < Len(W)
                   /\ W[k] \in DOMAIN Intensifiers
                   /\ W[k + 1] \notin PositiveWords
                   /\ W[k + 1] \in NegativeWords
                THEN (Intensifiers[W[k]] * Unit) \div 2000 ELSE 0)
  IN  f[Len(W)]

\* steps (3) to (5) for the text: <<pos, neg>> before step (6)
C10_Sums(text) ==
  LET W == Split(Lower(text))
      negated == \E k \in 1..Len(W) : W[k] \in Negations
      p3 == IF negated THEN (C10_Neg2(W) * 7) \div 10 ELSE C10_Pos2(W)
      n3 == IF negated THEN (C10_Pos2(W) * 7) \div 10 ELSE C10_Neg2(W)
      p4 == p3 + CountAny(text, positive_emojis) * (Unit \div 2)
      n4 == n3 + CountAny(text, negative_emojis) * (Unit \div 2)
      e == Count(text, "!")
      p5 == IF e > 0 /\ p4 > n4 THEN (p4 * (10 + e)) \div 10 ELSE p4
      n5 == IF e > 0 /\ n4 > p4 THEN (n4 * (10 + e)) \div 10 ELSE n4
  IN  <<p5, n5>>

C11_TablesDisjoint ==
  /\ positive_words \cap negative_words = {}
  /\ \A t \in Threads :
       frame[t].pc \notin {"idle", "analyze"} =>
         \A k \in 1..Len(WordsOf(t)) :
           ~(/\ WordsOf(t)[k] \in positive_words
             /\ WordsOf(t)[k] \in negative_words
             /\ frame[t].features.positive_word_count > 0
             /\ frame[t].features.negative_word_count > 0)

\* the step of the frame f in a scoring that leaves the negation loop out
C12_StepWithoutNegation(f) ==
  CASE f.pc = "base" -> BaseScoreStep64(f)
    [] f.pc = "intensify" -> IntensifierStep64(f)
    [] f.pc = "negate" -> [f EXCEPT !.pc = "emoji"]
    [] f.pc = "emoji" -> EmojiStep64(f)
    [] f.pc = "exclaim" -> ExclamationStep64(f)
    [] f.pc = "final" -> FinalScoreStep64(f)
    [] OTHER -> f

RECURSIVE C12_RunWithoutNegation(_)
C12_RunWithoutNegation(f) ==
  IF f.pc = "return" THEN f
  ELSE C12_RunWithoutNegation(C12_StepWithoutNegation(f))

\* the scoring of the text of caller t from its features, negation left out
C12_WithoutNegation(t) ==
  C12_RunWithoutNegation([Entry(frame[t].text) EXCEPT
                            !.features = frame[t].features, !.pc = "base"])

C12_Mirror(label) ==
  CASE label = "Pozitif" -> "Negatif"
    [] label = "Negatif" -> "Pozitif"
    [] OTHER -> label

\* caller t has scored a text with a negation and no emoji
C12_Shape(t) ==
  /\ frame[t].pc = "return"
  /\ NoEmoji(t)
  /\ \E k \in 1..Len(WordsOf(t)) : WordsOf(t)[k] \in negations

\* C12: for a text with a negation and no emoji the raw score is exactly the
\* negative of the raw score of the same tokens scored with the negation step
\* left out, the label is the mirrored one (Pozitif <-> Negatif, Notr stays)
\* and the confidence is the same.
C12_NegationMirrors ==
  \A t \in Threads :
    C12_Shape(t) =>
      /\ frame[t].score = FNeg(C12_WithoutNegation(t).score)
      /\ frame[t].label = C12_Mirror(C12_WithoutNegation(t).label)
      /\ frame[t].confidence = C12_WithoutNegation(t).confidence

\* C12, the label alone: the label of a text with a negation and no emoji is
\* the mirror of the label of the same tokens scored without the negation
\* step.
C12_LabelMirrored ==
  \A t \in Threads :
    C12_Shape(t) => frame[t].label = C12_Mirror(C12_WithoutNegation(t).label)

\* C12, what is returned: the rounded score is the negative and the rounded
\* confidence is the same.
C12_RoundedMirrored ==
  \A t \in Threads :
    C12_Shape(t) =>
      /\ FRound3(frame[t].score) = -FRound3(C12_WithoutNegation(t).score)
      /\ FRound3(frame[t].confidence)
           = FRound3(C12_WithoutNegation(t).confidence)

\* the scoring of the text of caller t with exact rationals, negation left out
RECURSIVE C12_ExactRunWithoutNegation(_)
C12_ExactRunWithoutNegation(f) ==
  IF f.pc = "return" THEN f
  ELSE IF f.pc = "negate"
    THEN C12_ExactRunWithoutNegation([f EXCEPT !.pc = "emoji"])
  ELSE C12_ExactRunWithoutNegation(StepOf("None", f))

C12_ExactWithoutNegation(t) ==
  C12_ExactRunWithoutNegation([Entry(frame[t].text) EXCEPT
                                 !.features = frame[t].features,
                                 !.pc = "base"])

\* C12 with exact rationals in place of floats: the score is the negative,
\* the label the mirrored one and the rounded confidence the same.
C12_ExactMirror ==
  \A t \in Threads :
    C12_Shape(t) =>
      /\ frame[t].score[1] * C12_ExactWithoutNegation(t).score[2]
           = -C12_ExactWithoutNegation(t).score[1] * frame[t].score[2]
      /\ frame[t].label = C12_Mirror(C12_ExactWithoutNegation(t).label)
      /\ Round3(frame[t].confidence)
           = Round3(C12_ExactWithoutNegation(t).confidence)

=============================================================================
